---- MODULE Spec2Model ----
(***************************************************************************)
(* ASPX2Blazor (src/main.py): the per-file conversion pipeline driven by   *)
(* open_file: parse_cs, parse_aspx, convert_to_blazor, save_blazor_file.   *)
(*                                                                         *)
(* A markup node is a record [id, name, attrs, kids, text]:                *)
(*   - name is the tag name, "#text" for a string node;                    *)
(*   - attrs is a function from attribute names to values;                 *)
(*   - kids is the ordered sequence of child nodes;                        *)
(*   - id stands for the identity of the Python object (bs4 finds and      *)
(*     unwraps elements by identity); 0 in file content, numbered in       *)
(*     document order once the tree is built.                              *)
(* The text of an .aspx file is a sequence of top-level segments: a        *)
(* directive block <%@ ... %>, a newline, or the text of one node.         *)
(* Attribute values and tag names are atoms; the string functions the code *)
(* applies to them (lower, strip, fullmatch, startswith) are tables over   *)
(* the atoms in use.  File paths are sequences of characters.              *)
(***************************************************************************)
EXTENDS Integers, Sequences, FiniteSets, TLC

VARIABLES pc, files, idx, code, aspx, events, props, soup, converted_html, razor

vars == <<pc, files, idx, code, aspx, events, props, soup, converted_html, razor>>

(* ------------------------------ bounds --------------------------------- *)
MaxFiles == 2
MaxNodes == 3
MaxDecls == 2

(* --------------------------- generic helpers --------------------------- *)
EmptyAttrs == [k \in {} |-> ""]

Without(a, k) == [x \in (DOMAIN a) \ {k} |-> a[x]]

With(a, k, v) == [x \in (DOMAIN a) \cup {k} |-> IF x = k THEN v ELSE a[x]]

SetMin(S) == CHOOSE x \in S : \A y \in S : x <= y

SetMax(S) == CHOOSE x \in S : \A y \in S : y <= x

RECURSIVE SeqsUpTo(_, _)
SeqsUpTo(S, n) ==
    IF n = 0 THEN {<<>>}
    ELSE LET shorter == SeqsUpTo(S, n - 1)
         IN  shorter \cup {Append(s, x) : s \in {t \in shorter : Len(t) = n - 1}, x \in S}

(* ------------------------------ the tree ------------------------------- *)
Elem(n, a, k) == [id |-> 0, name |-> n, attrs |-> a, kids |-> k, text |-> ""]

Text(t) == [id |-> 0, name |-> "#text", attrs |-> EmptyAttrs, kids |-> <<>>, text |-> t]

Directive == [id |-> 0, name |-> "<%@", attrs |-> EmptyAttrs, kids |-> <<>>, text |-> ""]

Newline == Text("\n")

None == [id |-> 0, name |-> "#None", attrs |-> EmptyAttrs, kids |-> <<>>, text |-> ""]

IsTag(n) == n.name \notin {"#text", "<%@", "#None"}

RECURSIVE Size(_)
RECURSIVE SizeAll(_)
Size(n) == 1 + SizeAll(n.kids)

SizeAll(ks) == IF ks = <<>> THEN 0 ELSE Size(Head(ks)) + SizeAll(Tail(ks))

(* Document order (depth first, parent before children) of a node list. *)
RECURSIVE Preorder(_)
Preorder(ks) ==
    IF ks = <<>> THEN <<>>
    ELSE <<Head(ks)>> \o Preorder(Head(ks).kids) \o Preorder(Tail(ks))

(* Number the nodes of a list in document order, starting after `from`. *)
RECURSIVE Number(_, _)
Number(ks, from) ==
    IF ks = <<>> THEN <<>>
    ELSE LET h == Head(ks)
         IN  <<[h EXCEPT !.id = from + 1, !.kids = Number(h.kids, from + 1)]>>
             \o Number(Tail(ks), from + Size(h))

RECURSIVE Plain(_)
Plain(ks) ==
    IF ks = <<>> THEN <<>>
    ELSE <<[Head(ks) EXCEPT !.id = 0, !.kids = Plain(Head(ks).kids)]>> \o Plain(Tail(ks))

NodeOf(ks, i) == LET p == Preorder(ks) IN p[CHOOSE j \in 1..Len(p) : p[j].id = i]

(* Replace the node of identity i (name and attributes; the children stay). *)
RECURSIVE Replace(_, _, _)
Replace(ks, i, n) ==
    IF ks = <<>> THEN <<>>
    ELSE LET h == Head(ks)
         IN  <<IF h.id = i THEN [n EXCEPT !.kids = h.kids]
               ELSE [h EXCEPT !.kids = Replace(h.kids, i, n)]>>
             \o Replace(Tail(ks), i, n)

(* Ordered forests over node labels, by number of nodes: levels[k + 1] is  *)
(* the set of forests of exactly k nodes.  A forest of k nodes is a first  *)
(* tree of s nodes (a label over a forest of s - 1 nodes of `inner`)       *)
(* followed by a forest of k - s nodes; a label that is not a tag is a     *)
(* leaf.                                                                   *)
RECURSIVE ForestLevels(_, _, _, _)
ForestLevels(levels, inner, L, n) ==
    IF Len(levels) > n THEN levels
    ELSE LET k    == Len(levels)
             kids == IF inner = <<>> THEN levels ELSE inner
             next == UNION { { <<[l EXCEPT !.kids = ks]>> \o rest :
                                 l \in {x \in L : s = 1 \/ IsTag(x)},
                                 ks \in kids[s],
                                 rest \in levels[k - s + 1] } : s \in 1..k }
         IN  ForestLevels(Append(levels, next), inner, L, n)

(* The forests of at most n nodes over the labels L, with the labels of    *)
(* Top at the top level only.                                              *)
Forests(L, Top, n) ==
    LET nested == ForestLevels(<<{<<>>}>>, <<>>, L, n)
        top    == ForestLevels(<<{<<>>}>>, nested, L \cup Top, n)
    IN  UNION {top[k] : k \in 1..(n + 1)}

(* --------------------------- string tables ----------------------------- *)
(* str.lower() on the tag names, attribute names and values in use. *)
Lower(s) ==
    CASE s = "asp:Button"       -> "asp:button"
      [] s = "asp:TextBox"      -> "asp:textbox"
      [] s = "asp:Label"        -> "asp:label"
      [] s = "asp:DropDownList" -> "asp:dropdownlist"
      [] s = "asp:CheckBox"     -> "asp:checkbox"
      [] s = "asp:RadioButton"  -> "asp:radiobutton"
      [] s = "asp:HyperLink"    -> "asp:hyperlink"
      [] s = "asp:Image"        -> "asp:image"
      [] s = "Text"             -> "text"
      [] s = "SelectedValue"    -> "selectedvalue"
      [] s = "Checked"          -> "checked"
      [] s = "NavigateUrl"      -> "navigateurl"
      [] s = "ImageUrl"         -> "imageurl"
      [] s = "OnClick"          -> "onclick"
      [] s = "OnClientClick"    -> "onclientclick"
      [] s = "Server"           -> "server"
      [] s = "SERVER"           -> "server"
      [] OTHER                  -> s

(* str.strip() *)
Strip(s) ==
    CASE s = " SaveClick " -> "SaveClick"
      [] OTHER             -> s

(* re.fullmatch(r"[A-Za-z_]\w*", s) *)
IsIdentifier(s) == s \in {"SaveClick", "LoadClick", "Foo", "Bar", "server", "Server", "x"}

(* str.startswith("@bind") *)
StartsWithBind(s) == s \in {"@bind-Value"}

(* --------------------------- element_mapping --------------------------- *)
MappingKeys ==
    {"asp:Button", "asp:TextBox", "asp:Label", "asp:DropDownList",
     "asp:CheckBox", "asp:RadioButton", "asp:HyperLink", "asp:Image"}

element_mapping(t) ==
    CASE t = "asp:Button" ->
            [tag |-> "button", attributes |-> [Text |-> "@bind-Value"], event |-> "@onclick"]
      [] t = "asp:TextBox" ->
            [tag |-> "input", attributes |-> [Text |-> "@bind-Value"]]
      [] t = "asp:Label" ->
            [tag |-> "span", attributes |-> [Text |-> "@bind-Value"]]
      [] t = "asp:DropDownList" ->
            [tag |-> "select", attributes |-> [SelectedValue |-> "@bind-Value"]]
      [] t = "asp:CheckBox" ->
            [tag |-> "input", attributes |-> [Checked |-> "@bind-Value"], type |-> "checkbox"]
      [] t = "asp:RadioButton" ->
            [tag |-> "input", attributes |-> [Checked |-> "@bind-Value"], type |-> "radio"]
      [] t = "asp:HyperLink" ->
            [tag |-> "a", attributes |-> [NavigateUrl |-> "href"]]
      [] t = "asp:Image" ->
            [tag |-> "img", attributes |-> [ImageUrl |-> "src"]]

(* ------------------------------ parse_cs ------------------------------- *)
(* The text of a code-behind file is a sequence of declarations           *)
(* [kind, typ, name]: kind "field" is the text `public typ name;`, kind    *)
(* "handler" is `protected void name(object sender, EventArgs e)`, kind    *)
(* "other" is text neither pattern matches.                                *)
Field(t, n) == [kind |-> "field", typ |-> t, name |-> n]

Handler(n) == [kind |-> "handler", typ |-> "void", name |-> n]

Other(n) == [kind |-> "other", typ |-> "string", name |-> n]

(* f"public {typ} {name} {{ get; set; }}" *)
Property(t, n) == [typ |-> t, name |-> n]

(* re.findall(r"public\s+(\w+)\s+(\w+);", code), each appended to props *)
RECURSIVE FindProps(_)
FindProps(c) ==
    IF c = <<>> THEN <<>>
    ELSE (IF Head(c).kind = "field" THEN <<Property(Head(c).typ, Head(c).name)>> ELSE <<>>)
         \o FindProps(Tail(c))

Range(s) == {s[i] : i \in 1..Len(s)}

(* events[evt] = ... for each handler found: a dict keeps a key at the     *)
(* position of its first insertion.  The keys, in that order.              *)
RECURSIVE FindEvents(_, _)
FindEvents(c, ev) ==
    IF c = <<>> THEN ev
    ELSE FindEvents(Tail(c),
                    IF Head(c).kind = "handler" /\ Head(c).name \notin Range(ev)
                    THEN Append(ev, Head(c).name) ELSE ev)

(* A file on disk: status "ok", "missing" or "unreadable", and its text. *)
File(st, body) == [status |-> st, body |-> body]

parse_cs(f) ==
    IF f.status = "ok"
    THEN [events |-> FindEvents(f.body, <<>>), props |-> FindProps(f.body)]
    ELSE [events |-> <<>>, props |-> <<>>]

(* ----------------------------- parse_aspx ------------------------------ *)
(* re.sub(r"<%@.*%>\n?", "", raw): `.` does not cross a newline and `.*`   *)
(* is greedy, so on each line the match runs from the first `<%@` to the   *)
(* last `%>` of that line, and takes the newline when it follows directly. *)
RECURSIVE StripDirectives(_)
StripDirectives(raw) ==
    IF raw = <<>> THEN <<>>
    ELSE LET nls  == {i \in 1..Len(raw) : raw[i] = Newline}
             eol  == IF nls = {} THEN Len(raw) + 1 ELSE SetMin(nls)
             line == SubSeq(raw, 1, eol - 1)
             nl   == IF eol <= Len(raw) THEN <<Newline>> ELSE <<>>
             rest == SubSeq(raw, eol + 1, Len(raw))
             dirs == {i \in 1..Len(line) : line[i] = Directive}
         IN  IF dirs = {} THEN line \o nl \o StripDirectives(rest)
             ELSE SubSeq(line, 1, SetMin(dirs) - 1)
                  \o SubSeq(line, SetMax(dirs) + 1, Len(line))
                  \o (IF SetMax(dirs) = Len(line) THEN <<>> ELSE nl)
                  \o StripDirectives(rest)

(* html.parser lowercases tag names and attribute names. *)
LowerAttrs(a) ==
    [k \in {Lower(n) : n \in DOMAIN a} |-> a[CHOOSE n \in DOMAIN a : Lower(n) = k]]

RECURSIVE LowerNames(_)
LowerNames(ks) ==
    IF ks = <<>> THEN <<>>
    ELSE LET h == Head(ks)
         IN  <<[h EXCEPT !.name = IF IsTag(h) THEN Lower(h.name) ELSE h.name,
                         !.attrs = LowerAttrs(h.attrs),
                         !.kids = LowerNames(h.kids)]>>
             \o LowerNames(Tail(ks))

(* BeautifulSoup(raw, "html.parser"): the children of the document object. *)
BeautifulSoup(raw) == Number(LowerNames(raw), 0)

(* for asp_tag in element_mapping: for elem in find_all(lower): elem.name = asp_tag *)
RestoreName(n) ==
    IF \E t \in MappingKeys : Lower(t) = n
    THEN CHOOSE t \in MappingKeys : Lower(t) = n
    ELSE n

RECURSIVE RestoreTags(_)
RestoreTags(ks) ==
    IF ks = <<>> THEN <<>>
    ELSE LET h == Head(ks)
         IN  <<[h EXCEPT !.name = IF IsTag(h) THEN RestoreName(h.name) ELSE h.name,
                         !.kids = RestoreTags(h.kids)]>>
             \o RestoreTags(Tail(ks))

(* soup.find_all(name): the identities of the tags of that name, in        *)
(* document order.                                                         *)
find_all(ks, name) ==
    LET Hit(n) == IsTag(n) /\ (name = "" \/ n.name = name)
        hits   == SelectSeq(Preorder(ks), Hit)
    IN  [j \in 1..Len(hits) |-> hits[j].id]

(* form.get("runat", "").lower() == "server" *)
IsServerForm(n) == Lower(IF "runat" \in DOMAIN n.attrs THEN n.attrs["runat"] ELSE "") = "server"

Reverse(q) == [j \in 1..Len(q) |-> q[Len(q) + 1 - j]]

(* unwrap inserting the children last first. *)
RECURSIVE unwrap_Reversed(_, _)
unwrap_Reversed(ks, i) ==
    IF ks = <<>> THEN <<>>
    ELSE LET h == Head(ks)
         IN  (IF h.id = i THEN Reverse(h.kids)
              ELSE <<[h EXCEPT !.kids = unwrap_Reversed(h.kids, i)]>>)
             \o unwrap_Reversed(Tail(ks), i)

(* Tag.unwrap(): the element of identity i is taken out of its parent and  *)
(* its children are inserted at its index, in order.                       *)
RECURSIVE unwrap(_, _)
unwrap(ks, i) ==
    IF ks = <<>> THEN <<>>
    ELSE LET h == Head(ks)
         IN  (IF h.id = i THEN h.kids ELSE <<[h EXCEPT !.kids = unwrap(h.kids, i)]>>)
             \o unwrap(Tail(ks), i)

(* for form in soup.find_all("form"): if ...: form.unwrap() *)
RECURSIVE UnwrapForms(_, _)
UnwrapForms(ks, forms) ==
    IF forms = <<>> THEN ks
    ELSE UnwrapForms(IF IsServerForm(NodeOf(ks, Head(forms))) THEN unwrap(ks, Head(forms)) ELSE ks,
                     Tail(forms))

Document(ks) == [id |-> 0, name |-> "[document]", attrs |-> EmptyAttrs, kids |-> ks, text |-> ""]

parse_aspx(f) ==
    IF f.status # "ok" THEN None
    ELSE LET parsed == RestoreTags(BeautifulSoup(StripDirectives(f.body)))
         IN  Document(UnwrapForms(parsed, find_all(parsed, "form")))

(* -------------------------- convert_to_blazor -------------------------- *)
(* re.match(r"public\s+\w+\s+(\w+)", p).group(1) for each p of class_props *)
SeenProps(class_props) == {class_props[i].name : i \in 1..Len(class_props)}

(* MapAttributes without seen_props.add(val). *)
RECURSIVE MapAttributes_NotRecorded(_, _, _)
MapAttributes_NotRecorded(renames, todo, st) ==
    IF todo = {} THEN st
    ELSE LET asp_attr    == CHOOSE k \in todo : TRUE
             target_attr == renames[asp_attr]
             key_lower   == Lower(asp_attr)
         IN  IF key_lower \notin DOMAIN st.attrs
             THEN MapAttributes_NotRecorded(renames, todo \ {asp_attr}, st)
             ELSE LET val == st.attrs[key_lower]
                      add == StartsWithBind(target_attr) /\ val \notin st.seen
                  IN  MapAttributes_NotRecorded(renames, todo \ {asp_attr},
                        [attrs |-> With(Without(st.attrs, key_lower), target_attr, val),
                         props |-> IF add THEN Append(st.props, Property("string", val))
                                   ELSE st.props,
                         seen  |-> st.seen])

(* One pass of `for asp_attr, target_attr in mapping["attributes"].items()` *)
(* on the attributes a; st carries class_props and seen_props.             *)
RECURSIVE MapAttributes(_, _, _)
MapAttributes(renames, todo, st) ==
    IF todo = {} THEN st
    ELSE LET asp_attr    == CHOOSE k \in todo : TRUE
             target_attr == renames[asp_attr]
             key_lower   == Lower(asp_attr)
         IN  IF key_lower \notin DOMAIN st.attrs
             THEN MapAttributes(renames, todo \ {asp_attr}, st)
             ELSE LET val == st.attrs[key_lower]
                      add == StartsWithBind(target_attr) /\ val \notin st.seen
                  IN  MapAttributes(renames, todo \ {asp_attr},
                        [attrs |-> With(Without(st.attrs, key_lower), target_attr, val),
                         props |-> IF add THEN Append(st.props, Property("string", val))
                                   ELSE st.props,
                         seen  |-> IF add THEN st.seen \cup {val} ELSE st.seen])

(* MapOnclick binding every identifier, known to events or not. *)
MapOnclick_AnyIdentifier(mapping, a, evts) ==
    IF "onclick" \notin DOMAIN a THEN [attrs |-> a, raised |-> FALSE]
    ELSE LET candidate == Strip(a["onclick"])
         IN  IF IsIdentifier(candidate)
             THEN IF "event" \in DOMAIN mapping
                  THEN [attrs |-> Without(With(a, mapping.event, candidate), "onclick"),
                        raised |-> FALSE]
                  ELSE [attrs |-> a, raised |-> TRUE]
             ELSE [attrs |-> a, raised |-> FALSE]

(* `if "onclick" in elm.attrs:` ... ; raised is the KeyError of            *)
(* mapping["event"] for a mapping without that key.                        *)
MapOnclick(mapping, a, evts) ==
    IF "onclick" \notin DOMAIN a THEN [attrs |-> a, raised |-> FALSE]
    ELSE LET candidate == Strip(a["onclick"])
         IN  IF IsIdentifier(candidate) /\ candidate \in Range(evts)
             THEN IF "event" \in DOMAIN mapping
                  THEN [attrs |-> Without(With(a, mapping.event, candidate), "onclick"),
                        raised |-> FALSE]
                  ELSE [attrs |-> a, raised |-> TRUE]
             ELSE [attrs |-> a, raised |-> FALSE]

(* MapOnclientclick giving way to an onclick that is already there. *)
MapOnclientclick_KeepOnclick(a) ==
    IF "onclientclick" \in DOMAIN a
    THEN IF "onclick" \in DOMAIN a THEN Without(a, "onclientclick")
         ELSE With(Without(a, "onclientclick"), "onclick", a["onclientclick"])
    ELSE a

(* `if "onclientclick" in elm.attrs:` ... *)
MapOnclientclick(a) ==
    IF "onclientclick" \in DOMAIN a
    THEN With(Without(a, "onclientclick"), "onclick", a["onclientclick"])
    ELSE a

(* The body of `for elm in soup.find_all():` for the element of identity i. *)
ConvertElm(st, i, evts) ==
    LET elm == NodeOf(st.kids, i)
    IN  IF elm.name \notin MappingKeys THEN st
        ELSE LET mapping == element_mapping(elm.name)
                 a1 == IF "runat" \in DOMAIN elm.attrs THEN Without(elm.attrs, "runat")
                       ELSE elm.attrs
                 a2 == IF "type" \in DOMAIN mapping THEN With(a1, "type", mapping.type) ELSE a1
                 m  == MapAttributes(mapping.attributes, DOMAIN mapping.attributes,
                                     [attrs |-> a2, props |-> st.props, seen |-> st.seen])
                 oc == MapOnclick(mapping, m.attrs, evts)
                 a5 == IF oc.raised THEN oc.attrs ELSE MapOnclientclick(oc.attrs)
             IN  [kids   |-> Replace(st.kids, i, [elm EXCEPT !.name = mapping.tag, !.attrs = a5]),
                  props  |-> m.props,
                  seen   |-> m.seen,
                  raised |-> oc.raised]

RECURSIVE ConvertAll(_, _, _)
ConvertAll(st, elms, evts) ==
    IF elms = <<>> \/ st.raised THEN st
    ELSE ConvertAll(ConvertElm(st, Head(elms), evts), Tail(elms), evts)

(* The result: the tree and class_props as mutated in place, and whether   *)
(* an exception left the function.                                         *)
convert_to_blazor(sp, evts, class_props) ==
    LET st == ConvertAll([kids |-> sp.kids, props |-> class_props,
                          seen |-> SeenProps(class_props), raised |-> FALSE],
                         find_all(sp.kids, ""), evts)
    IN  [soup |-> [sp EXCEPT !.kids = st.kids], props |-> st.props, raised |-> st.raised]

(* -------------------------- save_blazor_file --------------------------- *)
CodeLine(k, t, n) == [kind |-> k, typ |-> t, name |-> n]

CodeOpen == CodeLine("@code {", "", "")

CodeClose == CodeLine("}", "", "")

(* "\n".join(props) *)
JoinProps(ps) == [i \in 1..Len(ps) |-> CodeLine("property", ps[i].typ, ps[i].name)]

(* "\n".join(events.values()): f"private void {evt}() {{ ... }}" per key *)
JoinEvents(ev) == [i \in 1..Len(ev) |-> CodeLine("stub", "void", ev[i])]

(* code_block with the event stubs before the properties. *)
code_block_StubsFirst(ev, ps) ==
    <<CodeOpen>> \o (IF ev # <<>> THEN JoinEvents(ev) ELSE <<>>)
                 \o (IF ps # <<>> THEN JoinProps(ps) ELSE <<>>)
                 \o <<CodeClose>>

code_block(ev, ps) ==
    <<CodeOpen>> \o (IF ps # <<>> THEN JoinProps(ps) ELSE <<>>)
                 \o (IF ev # <<>> THEN JoinEvents(ev) ELSE <<>>)
                 \o <<CodeClose>>

(* One f.write(...): the preamble (of which the route varies), the        *)
(* content, the newline, the code block.                                   *)
Chunk(k, route, content, lines) ==
    [kind |-> k, route |-> route, content |-> content, lines |-> lines]

(* The file at out_path after the four writes. *)
save_blazor_file(content, ev, ps, out_path, route) ==
    [path |-> out_path,
     text |-> <<Chunk("preamble", route, None, <<>>),
                Chunk("content", <<>>, content, <<>>),
                Chunk("\n", <<>>, None, <<>>),
                Chunk("code_block", <<>>, None, code_block(ev, ps))>>]

NoRazor == [path |-> <<>>, text |-> <<>>]

(* ------------------------------ os.path -------------------------------- *)
RFind(p, c) == LET S == {i \in 1..Len(p) : p[i] = c} IN IF S = {} THEN 0 ELSE SetMax(S)

(* os.path.basename *)
basename(p) == SubSeq(p, RFind(p, "/") + 1, Len(p))

(* splitext0 cutting at the first dot of the path. *)
splitext0_FirstDot(p) ==
    LET dots == {i \in 1..Len(p) : p[i] = "."}
    IN  IF dots = {} THEN p ELSE SubSeq(p, 1, SetMin(dots) - 1)

(* os.path.splitext(p)[0]: cut at the last dot, unless only dots stand     *)
(* between the last separator and it.                                      *)
splitext0(p) ==
    LET sepIndex == RFind(p, "/")
        dotIndex == RFind(p, ".")
    IN  IF dotIndex > sepIndex /\ \E k \in (sepIndex + 1)..(dotIndex - 1) : p[k] # "."
        THEN SubSeq(p, 1, dotIndex - 1)
        ELSE p

razor_ext == <<".", "r", "a", "z", "o", "r">>

(* ------------------------------ inputs --------------------------------- *)
(* "/myPage.aspx", "/d/Page.aspx", "/a.b.aspx", "/.aspx" *)
PathMyPage == <<"/", "m", "y", "P", "a", "g", "e", ".", "a", "s", "p", "x">>

PathInDir == <<"/", "d", "/", "P", "a", "g", "e", ".", "a", "s", "p", "x">>

PathTwoDots == <<"/", "a", ".", "b", ".", "a", "s", "p", "x">>

PathNoStem == <<"/", ".", "a", "s", "p", "x">>

PathsOne == {PathMyPage}

PathsRoute == {PathMyPage, PathInDir, PathTwoDots, PathNoStem}

(* What the file dialog can return: nothing or one file; several files of  *)
(* one name; several files of several names.                               *)
BatchesOne == {<<>>, <<PathMyPage>>}

BatchesMany == SeqsUpTo(PathsOne, MaxFiles)

BatchesRoute == SeqsUpTo(PathsRoute, MaxFiles)

Files(bodies, others) == {File("ok", b) : b \in bodies} \cup {File(st, <<>>) : st \in others}

CsFiles(decls) == Files(SeqsUpTo(decls, MaxDecls), {"missing", "unreadable"})

AspxFiles(L, Top) == Files(Forests(L, Top, MaxNodes), {"unreadable"})

Attr1(k, v) == [x \in {k} |-> v]

Attr2(k1, v1, k2, v2) == [x \in {k1, k2} |-> IF x = k1 THEN v1 ELSE v2]

(* Controls with click attributes. *)
LabelsEvent ==
    {Elem("asp:Button", Attr1("OnClick", " SaveClick "), <<>>),
     Elem("asp:Button", Attr2("OnClick", "SaveClick", "OnClientClick", "js()"), <<>>),
     Elem("asp:Button", Attr2("OnClick", "alert(1)", "OnClientClick", "js()"), <<>>),
     Elem("asp:TextBox", Attr1("OnClick", "SaveClick"), <<>>)}

DeclsEvent == {Handler("SaveClick")}

CsEvent == CsFiles(DeclsEvent)

AspxEvent == AspxFiles(LabelsEvent, {})

(* Wrappers, other tags and text, with and without the server marker. *)
LabelsTree ==
    {Elem("form", EmptyAttrs, <<>>),
     Elem("form", Attr1("runat", "server"), <<>>),
     Elem("form", Attr1("runat", "Server"), <<>>),
     Elem("div", Attr1("runat", "server"), <<>>),
     Text("x")}

DeclsTree == {Other("Bar")}

CsTree == CsFiles(DeclsTree)

AspxTree == AspxFiles(LabelsTree, {})

(* Lines of directive blocks, tags and text. *)
LabelsDirective == {Elem("form", Attr1("runat", "server"), <<>>), Elem("p", EmptyAttrs, <<>>), Text("x")}

AspxDirective == AspxFiles(LabelsDirective, {Directive, Newline})

(* Controls with a renamed attribute: bindings and plain renames. *)
LabelsBind ==
    {Elem("asp:TextBox", Attr1("Text", "Foo"), <<>>),
     Elem("asp:TextBox", Attr2("Text", "Bar", "OnClick", "SaveClick"), <<>>),
     Elem("asp:HyperLink", Attr1("NavigateUrl", "Foo"), <<>>)}

DeclsBind == {Field("string", "Foo"), Handler("SaveClick"), Handler("LoadClick")}

CsBind == CsFiles(DeclsBind)

AspxBind == AspxFiles(LabelsBind, {})

LabelsRoute == {Elem("div", EmptyAttrs, <<>>)}

DeclsRoute == {}

CsRoute == CsFiles(DeclsRoute)

AspxRoute == AspxFiles(LabelsRoute, {})

LabelsBatch == {Elem("asp:TextBox", Attr1("OnClick", "SaveClick"), <<>>)}

AspxBatch == AspxFiles(LabelsBatch, {})

(* ------------------------------ the program ---------------------------- *)
Init ==
    /\ pc = "idle"
    /\ files = <<>>
    /\ idx = 0
    /\ code = File("missing", <<>>)
    /\ aspx = File("missing", <<>>)
    /\ events = <<>>
    /\ props = <<>>
    /\ soup = None
    /\ converted_html = None
    /\ razor = NoRazor

(* The locals of one loop iteration before they are bound, and no output   *)
(* file written yet for the iteration.                                     *)
Unbound ==
    /\ code' = File("missing", <<>>)
    /\ aspx' = File("missing", <<>>)
    /\ events' = <<>>
    /\ props' = <<>>
    /\ soup' = None
    /\ converted_html' = None
    /\ razor' = NoRazor

(* The Convert button: open_file starts with the paths the dialog returns. *)
Click(batches) ==
    /\ pc \in {"idle", "done", "raised"}
    /\ \E fs \in batches : files' = fs
    /\ idx' = 0
    /\ pc' = "for"
    /\ Unbound

(* for asp_path in files: the next path, or the end of the loop. *)
ForNext ==
    /\ pc = "for"
    /\ IF idx < Len(files)
       THEN idx' = idx + 1 /\ pc' = "parse_cs"
       ELSE idx' = idx /\ pc' = "showinfo"
    /\ Unbound
    /\ UNCHANGED files

(* events, props = parse_cs(cs_path): the code-behind file as it is on disk. *)
ParseCs(csfiles) ==
    /\ pc = "parse_cs"
    /\ \E f \in csfiles :
         LET found == parse_cs(f)
         IN  /\ code' = f
             /\ events' = found.events
             /\ props' = found.props
    /\ pc' = "parse_aspx"
    /\ UNCHANGED <<files, idx, aspx, soup, converted_html, razor>>

(* soup = parse_aspx(asp_path); if soup is None: continue *)
ParseAspx(aspxfiles) ==
    /\ pc = "parse_aspx"
    /\ \E f \in aspxfiles :
         LET parsed == parse_aspx(f)
         IN  /\ aspx' = f
             /\ soup' = parsed
             /\ pc' = IF parsed = None THEN "for" ELSE "convert"
    /\ UNCHANGED <<files, idx, code, events, props, converted_html, razor>>

(* converted_html = convert_to_blazor(soup, events, props) *)
ConvertToBlazor ==
    /\ pc = "convert"
    /\ LET r == convert_to_blazor(soup, events, props)
       IN  /\ soup' = r.soup
           /\ props' = r.props
           /\ converted_html' = IF r.raised THEN converted_html ELSE r.soup
           /\ pc' = IF r.raised THEN "raised" ELSE "save"
    /\ UNCHANGED <<files, idx, code, aspx, events, razor>>

(* base_name, route, razor_path, save_blazor_file(...): the file is        *)
(* written, or open() fails and the error is shown.                        *)
SaveBlazorFile ==
    /\ pc = "save"
    /\ LET asp_path   == files[idx]
           base_name  == splitext0(basename(asp_path))
           route      == <<"/">> \o base_name
           razor_path == splitext0(asp_path) \o razor_ext
       IN  \E written \in BOOLEAN :
             razor' = IF written
                      THEN save_blazor_file(converted_html, events, props, razor_path, route)
                      ELSE NoRazor
    /\ pc' = "for"
    /\ UNCHANGED <<files, idx, code, aspx, events, props, soup, converted_html>>

(* messagebox.showinfo("Done", ...) *)
ShowInfo ==
    /\ pc = "showinfo"
    /\ pc' = "done"
    /\ UNCHANGED <<files, idx, code, aspx, events, props, soup, converted_html, razor>>

(* Pages whose controls carry click attributes. *)
Next ==
    \/ Click(BatchesOne)
    \/ ForNext
    \/ ParseCs(CsEvent)
    \/ ParseAspx(AspxEvent)
    \/ ConvertToBlazor
    \/ SaveBlazorFile
    \/ ShowInfo

Spec == Init /\ [][Next]_vars

(* Pages of wrappers, marked tags and text. *)
NextTree ==
    \/ Click(BatchesOne)
    \/ ForNext
    \/ ParseCs(CsTree)
    \/ ParseAspx(AspxTree)
    \/ ConvertToBlazor
    \/ SaveBlazorFile
    \/ ShowInfo

SpecTree == Init /\ [][NextTree]_vars

(* Pages with directive lines. *)
NextDirective ==
    \/ Click(BatchesOne)
    \/ ForNext
    \/ ParseCs(CsTree)
    \/ ParseAspx(AspxDirective)
    \/ ConvertToBlazor
    \/ SaveBlazorFile
    \/ ShowInfo

SpecDirective == Init /\ [][NextDirective]_vars

(* Pages of bound controls, with code-behind declarations. *)
NextBind ==
    \/ Click(BatchesOne)
    \/ ForNext
    \/ ParseCs(CsBind)
    \/ ParseAspx(AspxBind)
    \/ ConvertToBlazor
    \/ SaveBlazorFile
    \/ ShowInfo

SpecBind == Init /\ [][NextBind]_vars

(* Batches of differently named files. *)
NextRoute ==
    \/ Click(BatchesRoute)
    \/ ForNext
    \/ ParseCs(CsRoute)
    \/ ParseAspx(AspxRoute)
    \/ ConvertToBlazor
    \/ SaveBlazorFile
    \/ ShowInfo

SpecRoute == Init /\ [][NextRoute]_vars

(* Batches of several files, some of which stop the conversion. *)
NextBatch ==
    \/ Click(BatchesMany)
    \/ ForNext
    \/ ParseCs(CsEvent)
    \/ ParseAspx(AspxBatch)
    \/ ConvertToBlazor
    \/ SaveBlazorFile
    \/ ShowInfo

SpecBatch == Init /\ [][NextBatch]_vars

(* ============================ properties =============================== *)
Nodes(ks) == Range(Preorder(ks))

(* The tree handed to convert_to_blazor, and the tree it leaves. *)
Before == parse_aspx(aspx).kids

After == soup.kids

IsControl(n) == n.name \in MappingKeys

(* A control whose onclick names a handler of events. *)
NamesHandler(n) ==
    /\ IsControl(n)
    /\ "onclick" \in DOMAIN n.attrs
    /\ IsIdentifier(Strip(n.attrs["onclick"]))
    /\ Strip(n.attrs["onclick"]) \in Range(events)

(* The controls of the tree b at which the conversion stops with an        *)
(* exception: those with no event-binding attribute declared whose onclick *)
(* names a handler.                                                        *)
Raising(b) == {n.id : n \in {m \in Nodes(b) : NamesHandler(m) /\ m.name # "asp:Button"}}

(* The last node of b (in document order) the conversion has gone through  *)
(* when it has returned or raised; 0 before.                               *)
LastVisited(b) ==
    IF pc \in {"save", "for"} THEN SizeAll(b)
    ELSE IF pc = "raised" /\ Raising(b) # {} THEN SetMin(Raising(b))
    ELSE 0

(* C1: no exception escapes the per-file conversion of open_file, so that *)
(* every file of the batch is processed.                                   *)
C1_NoExceptionEscapes == pc # "raised"

(* C2: the final field list of one conversion holds no two declarations   *)
(* of the same field name.                                                 *)
C2_UniqueFieldNames ==
    pc = "save" =>
        \A i, j \in 1..Len(props) : props[i].name = props[j].name => i = j

(* C3: a control whose trimmed onclick value is a valid identifier that is *)
(* not a key of events gets no @onclick attribute, and events is unchanged. *)
C3_EventBindingGating ==
    pc \in {"save", "raised"} =>
        /\ events = parse_cs(code).events
        /\ \A n \in Nodes(Before) :
             ( /\ IsControl(n)
               /\ "onclick" \in DOMAIN n.attrs
               /\ IsIdentifier(Strip(n.attrs["onclick"]))
               /\ Strip(n.attrs["onclick"]) \notin Range(events) )
             => "@onclick" \notin DOMAIN NodeOf(After, n.id).attrs

C3_Witness ==
    /\ pc = "save"
    /\ \E n \in Nodes(Before) :
         /\ n.name = "asp:Button"
         /\ "onclick" \in DOMAIN n.attrs
         /\ n.attrs["onclick"] = " SaveClick "
         /\ "SaveClick" \notin Range(events)
         /\ NodeOf(After, n.id).name = "button"

(* The wrappers parse_aspx removes, and the tree with each of them         *)
(* replaced by its children, in order, where it stood.                     *)
ServerWrapper(n) ==
    /\ n.name = "form"
    /\ "runat" \in DOMAIN n.attrs
    /\ n.attrs["runat"] \in {"server", "Server", "SERVER"}

RECURSIVE Spliced(_)
Spliced(ks) ==
    IF ks = <<>> THEN <<>>
    ELSE (IF ServerWrapper(Head(ks)) THEN Spliced(Head(ks).kids)
          ELSE <<[Head(ks) EXCEPT !.kids = Spliced(Head(ks).kids)]>>)
         \o Spliced(Tail(ks))

(* The tree as parsed, before the wrappers are removed. *)
Parsed == RestoreTags(BeautifulSoup(StripDirectives(aspx.body)))

(* C4: after parse_aspx every form whose runat is "server" in any casing  *)
(* is gone and its children stand, in order, where it stood; this holds    *)
(* for sibling and nested wrappers; the other forms are kept.              *)
C4_UnwrapKeepsChildOrder ==
    pc = "convert" =>
        /\ soup.kids = Spliced(Parsed)
        /\ \A n \in Nodes(soup.kids) : ~ServerWrapper(n)

C4_Witness ==
    /\ pc = "convert"
    /\ \E n \in Nodes(Parsed) :
         /\ ServerWrapper(n)
         /\ Len(n.kids) = 2
         /\ ServerWrapper(n.kids[1])
         /\ n.kids[2].name = "#text"
    /\ soup.kids = <<[Text("x") EXCEPT !.id = 3]>>

(* The file text without its directive blocks (and the newline that ends   *)
(* a directive line), and a tree without the server marker attribute.      *)
RECURSIVE WithoutDirectives(_)
WithoutDirectives(raw) ==
    IF raw = <<>> THEN <<>>
    ELSE IF Head(raw) = Directive
         THEN IF Len(raw) > 1 /\ raw[2] = Newline
              THEN WithoutDirectives(Tail(Tail(raw)))
              ELSE WithoutDirectives(Tail(raw))
         ELSE <<Head(raw)>> \o WithoutDirectives(Tail(raw))

RECURSIVE Unmarked(_)
Unmarked(ks) ==
    IF ks = <<>> THEN <<>>
    ELSE <<[Head(ks) EXCEPT !.attrs = [k \in (DOMAIN Head(ks).attrs) \ {"runat"} |->
                                          Head(ks).attrs[k]],
                            !.kids = Unmarked(Head(ks).kids)]>>
         \o Unmarked(Tail(ks))

NoControl(raw) == \A n \in Nodes(raw) : \A t \in MappingKeys : Lower(n.name) # Lower(t)

(* C5: a markup without any tag of element_mapping comes out of parse_aspx *)
(* and convert_to_blazor as it went in, except that directives are         *)
(* stripped, server wrappers unwrapped and server markers stripped; the    *)
(* field list is not extended.                                             *)
C5_NonControlRoundTrip ==
    (pc = "save" /\ NoControl(aspx.body)) =>
        /\ Unmarked(Plain(soup.kids))
             = Unmarked(Plain(Spliced(LowerNames(WithoutDirectives(aspx.body)))))
        /\ props = parse_cs(code).props

(* C8: after parse_aspx and convert_to_blazor no node carries runat. *)
C8_NoServerMarkerLeft ==
    pc = "save" => \A n \in Nodes(soup.kids) : "runat" \notin DOMAIN n.attrs

(* A control with an onclick that is not bound to a handler. *)
KeepsOnclick(n) ==
    /\ IsControl(n)
    /\ "onclick" \in DOMAIN n.attrs
    /\ ~NamesHandler(n)

BoundAttr(name) ==
    CASE name \in {"asp:Button", "asp:TextBox", "asp:Label"} -> "text"
      [] name = "asp:DropDownList"                          -> "selectedvalue"
      [] name \in {"asp:CheckBox", "asp:RadioButton"}       -> "checked"
      [] OTHER                                              -> ""

Binds(n) == BoundAttr(n.name) \in DOMAIN n.attrs

BoundValue(n) == n.attrs[BoundAttr(n.name)]

(* The values bound by the nodes ns (in document order) up to the node     *)
(* last that are not in known, each once, in the order of their first use. *)
RECURSIVE NewBindings(_, _, _)
NewBindings(ns, last, known) ==
    IF ns = <<>> THEN <<>>
    ELSE IF Head(ns).id <= last /\ Binds(Head(ns)) /\ BoundValue(Head(ns)) \notin known
         THEN <<BoundValue(Head(ns))>>
              \o NewBindings(Tail(ns), last, known \cup {BoundValue(Head(ns))})
         ELSE NewBindings(Tail(ns), last, known)

(* The declarations of the code-behind text, as the caller supplies them. *)
IsFieldDecl(d) == d.kind = "field"

IsHandlerDecl(d) == d.kind = "handler"

SourceFields == IF code.status = "ok" THEN SelectSeq(code.body, IsFieldDecl) ELSE <<>>

SourceHandlers == IF code.status = "ok" THEN SelectSeq(code.body, IsHandlerDecl) ELSE <<>>

Synthesized ==
    LET b == Before
    IN  NewBindings(Preorder(b), LastVisited(b), {d.name : d \in Range(SourceFields)})

(* C10: convert_to_blazor appends one declaration per distinct value bound *)
(* by a @bind rename that is not the name of a caller-supplied field, in   *)
(* document order; other renames append none; the caller-supplied          *)
(* declarations stay as they are, in their order.                          *)
C10_BindingDedup ==
    pc \in {"save", "raised"} =>
        LET src == SourceFields
            syn == Synthesized
        IN  /\ Len(props) = Len(src) + Len(syn)
            /\ \A i \in 1..Len(src) : props[i] = Property(src[i].typ, src[i].name)
            /\ \A i \in 1..Len(syn) : props[Len(src) + i] = Property("string", syn[i])

C10_Witness ==
    /\ pc = "save"
    /\ Len(SourceFields) = 1
    /\ Synthesized = <<"Bar">>
    /\ Cardinality({n \in Nodes(Before) : Binds(n) /\ BoundValue(n) = "Bar"}) = 2
    /\ \E n \in Nodes(Before) : Binds(n) /\ BoundValue(n) = "Foo"
    /\ props = <<Property("string", "Foo"), Property("string", "Bar")>>

(* The handler names of the code-behind text, each at its first place. *)
RECURSIVE FirstOf(_, _)
FirstOf(names, known) ==
    IF names = <<>> THEN <<>>
    ELSE IF Head(names) \in known THEN FirstOf(Tail(names), known)
         ELSE <<Head(names)>> \o FirstOf(Tail(names), known \cup {Head(names)})

FirstHandlers == FirstOf([i \in 1..Len(SourceHandlers) |-> SourceHandlers[i].name], {})

(* C7: the written file ends with the code block; its markers are always   *)
(* there; between them stand the field declarations in the order they were *)
(* produced (those of the source, then those synthesized, in document      *)
(* order), then one stub per distinct handler name, in discovery order.    *)
C7_CodeBlockAssembly ==
    (pc = "for" /\ razor # NoRazor) =>
        LET last == razor.text[Len(razor.text)]
            src  == SourceFields
            syn  == Synthesized
            hs   == FirstHandlers
            nf   == Len(src)
            ns   == Len(syn)
            nh   == Len(hs)
        IN  /\ last.kind = "code_block"
            /\ Len(last.lines) = nf + ns + nh + 2
            /\ last.lines[1] = CodeOpen
            /\ last.lines[nf + ns + nh + 2] = CodeClose
            /\ \A i \in 1..nf :
                 last.lines[1 + i] = CodeLine("property", src[i].typ, src[i].name)
            /\ \A i \in 1..ns :
                 last.lines[1 + nf + i] = CodeLine("property", "string", syn[i])
            /\ \A i \in 1..nh :
                 last.lines[1 + nf + ns + i] = CodeLine("stub", "void", hs[i])

C7_Witness ==
    /\ pc = "for"
    /\ razor # NoRazor
    /\ Len(SourceFields) = 1
    /\ Len(Synthesized) = 1
    /\ Len(SourceHandlers) = 1
    /\ Len(razor.text[4].lines) = 5

(* str.upper() on the characters in use. *)
Upper(c) ==
    CASE c = "m" -> "M"
      [] c = "a" -> "A"
      [] c = "d" -> "D"
      [] c = "b" -> "B"
      [] OTHER   -> c

Capitalized(w) == IF w = <<>> THEN w ELSE <<Upper(w[1])>> \o Tail(w)

(* The file name of a path, and the name without its extension: the part   *)
(* before the last dot, the whole name if no dot follows a character that  *)
(* is not a dot.                                                           *)
IsFileName(p, w) ==
    /\ \A i \in 1..Len(w) : w[i] # "/"
    /\ \E i \in 1..(Len(p) + 1) :
         /\ w = SubSeq(p, i, Len(p))
         /\ i = 1 \/ p[i - 1] = "/"

IsStem(w, st) ==
    \E k \in 0..Len(w) :
        /\ st = SubSeq(w, 1, k)
        /\ IF \E i, j \in 1..Len(w) : i < j /\ w[i] # "." /\ w[j] = "."
           THEN /\ k < Len(w)
                /\ w[k + 1] = "."
                /\ \A j \in (k + 2)..Len(w) : w[j] # "."
           ELSE k = Len(w)

RouteIs(f(_)) ==
    (pc = "for" /\ razor # NoRazor) =>
        \E w \in {SubSeq(files[idx], i, Len(files[idx])) : i \in 1..(Len(files[idx]) + 1)} :
            \E st \in {SubSeq(w, 1, k) : k \in 0..Len(w)} :
                /\ IsFileName(files[idx], w)
                /\ IsStem(w, st)
                /\ razor.text[1].kind = "preamble"
                /\ razor.text[1].route = <<"/">> \o f(st)

(* C6: the route written in the @page directive is "/" followed by the    *)
(* input file name without its extension, its first character capitalized. *)
C6_RouteCapitalized == RouteIs(Capitalized)

Unchanged(w) == w

(* C6, amended: the route is "/" followed by the input file name without   *)
(* its extension, spelled as in the file name.                             *)
C6_RouteAsSpelled == RouteIs(Unchanged)

C6_Witness ==
    /\ pc = "for"
    /\ razor # NoRazor
    /\ files[idx] = PathMyPage
    /\ razor.text[1].route = <<"/", "m", "y", "P", "a", "g", "e">>

====
